---------------------------- MODULE Spec2Model ----------------------------
(***************************************************************************)
(* Verification model of the audio core of the stabby engine:              *)
(*   - ste::SPSCQueue   (src/src/engine/async/spsc_queue.h)                *)
(*   - ste::AudioQueue  (src/src/engine/audio/audio_queue.{h,cpp})         *)
(*   - ste::AudioChannel / ste::AudioEngine                                *)
(*                      (src/src/engine/audio/audio_engine.{h,cpp})        *)
(*                                                                         *)
(* Six specifications share this module.                                   *)
(*   QSpec : the ring buffer alone, one producer and one consumer, every   *)
(*           atomic load/store and every payload word access a step.       *)
(*   Spec  : the engine: the game thread issuing control calls, the audio  *)
(*           thread running audioCallback, one step per queue operation.   *)
(*   ChSpec: one AudioChannel driven through its member functions, with    *)
(*           the output buffer of mix and the sample indices it reads.     *)
(*   CbSpec: the engine's audioCallback as a whole, with the stream buffer *)
(*           of the device and the commands it consumes.                   *)
(*   SdSpec: the same callback with the master volume and beginShutdown.   *)
(*   SpSpec: one AudioChannel, the game speed and the speed statements of  *)
(*           audioCallback at the buffer sizes of a real device.           *)
(* The variables of the specification not being run keep their initial     *)
(* values.                                                                 *)
(***************************************************************************)
EXTENDS Integers, Sequences, FiniteSets, TLC

(***************************************************************************)
(* Bounds of the model (not program constants).                            *)
(***************************************************************************)
\* Ring capacity N of the SPSCQueue template (256 in AudioQueue, scaled down).
Size == 3
\* try_push calls made by the producer of QSpec.
MaxPush == 6
\* Size of the channel bank (AudioEngine::MAX_CHANNELS is 16, scaled down).
MAX_CHANNELS == 2
\* Control calls issued by the game thread of Spec.
MaxCalls == 2
\* Length in frames of every decoded clip.
ClipFrames == 2
\* Frames the device asks for in one callback.
CallbackFrames == 1
\* Member-function calls made on the channel of ChSpec.
MaxOps == 4

\* Commands pushed on the queue of CbSpec.
MaxCmds == 2
\* Callbacks the device makes in CbSpec.
MaxCallbacks == 2
\* Length in frames of the shutdown ramp (0.05 s, 2205 frames, scaled down).
RampFrames == 3

\* DEFAULT_SAMPLE_RATE of audio_engine.cpp
DEFAULT_SAMPLE_RATE == 44100
\* DEFAULT_CHANNELS of audio_engine.cpp
DEFAULT_CHANNELS == 2
\* sizeof(float)
SizeofFloat == 4

VARIABLES
  \* ---- SPSCQueue, step level (QSpec) ----
  writeIndex,   \* std::atomic<size_t> writeIndex
  readIndex,    \* std::atomic<size_t> readIndex
  buffer,       \* std::array<T, Size> buffer; a payload is two words <<lo, hi>>
  pPc,          \* producer's position inside try_push
  pCur,         \* try_push local `current`
  pItem,        \* try_push argument `item` (a tag 1, 2, 3, ...)
  pRes,         \* what the last try_push returned: "none", "true", "false"
  cPc,          \* consumer's position inside try_pop
  cCur,         \* try_pop local `current`
  cItem,        \* try_pop local `item`, as copied so far
  cRes,         \* what the last try_pop returned: "none", "value", "nullopt"
  step,         \* the operation step taken last (its action's name)
  calls,        \* history: number of try_push calls started
  pushed,       \* history: tags whose try_push returned true, in order
  rejected,     \* history: tags whose try_push returned false
  popped        \* history: payloads returned by try_pop, in order

  ,
  \* ---- AudioEngine (Spec) ----
  m_channels,       \* std::array<AudioChannel, MAX_CHANNELS> m_channels
  m_commandQueue,   \* AudioQueue m_commandQueue: [writeIndex, readIndex, buffer]
  m_gameSpeed,      \* float m_gameSpeed
  gPc,              \* game thread: position inside the current control call
  gArg,             \* game thread: locals of the current control call
  aPc,              \* audio thread: position inside audioCallback
  issued,           \* history: number of control calls started
  accepted,         \* history: ids of the commands whose push returned true
  dispatched,       \* history: ids handed to the handler by processCommands, in order
  removed,          \* history: ids popped from the queue by the game thread
  pendingAtStart,   \* history: ids queued when the running callback started
  lastPlay,         \* history: the last Play command applied to a channel
  stopAllPhase,     \* history: progress since the last stopAll() returned
  music,            \* history: the last playMusic call, its commands and progress
  fadeArg,          \* history: the targetVolume argument of each accepted fade command
  lastFade          \* history: the last fade command applied to a channel

  ,
  \* ---- one AudioChannel (ChSpec) ----
  chan,     \* the AudioChannel
  outBuf,   \* the float *buffer handed to the last mix, after the call
  ops,      \* history: number of member-function calls made
  last,     \* history: the last call, its arguments and the state before it
  hold,     \* history: the last play / setVolume not followed by a fadeVolume
  fade      \* history: the fade started last and the updates made since

  ,
  \* ---- AudioEngine with its output (CbSpec) ----
  m_config,                  \* AudioSystem::m_config (numOutputChannels 0: no device yet)
  m_masterVolume,            \* float m_masterVolume
  m_shutdownRequested,       \* bool m_shutdownRequested
  m_shutdownRampRemaining,   \* float m_shutdownRampRemaining
  sPc,        \* game thread: position inside beginShutdown, callbacks seen there
  pushes,     \* history: number of commands pushed on the queue
  callbacks,  \* history: number of callbacks run
  cb,         \* history: the last callback, its arguments and what it did
  ramps       \* history: the ramp gains computed since beginShutdown returned

qvars == <<writeIndex, readIndex, buffer, pPc, pCur, pItem, pRes,
           cPc, cCur, cItem, cRes, calls, pushed, rejected, popped>>

\* The history variables kept for the claims about playMusic and fadeChannel.
hvars == <<music, fadeArg, lastFade>>

evars == <<m_channels, m_commandQueue, m_gameSpeed, gPc, gArg, aPc, issued,
           accepted, dispatched, removed, pendingAtStart, lastPlay, stopAllPhase,
           hvars>>

cvars == <<chan, outBuf, ops, last, hold, fade>>

\* The members and histories of the callback bench.
bvars == <<m_config, m_masterVolume, m_shutdownRequested,
           m_shutdownRampRemaining, sPc, pushes, callbacks, cb, ramps>>

\* The histories of Spec, which the callback bench leaves alone.
ehist == <<gPc, gArg, aPc, issued, accepted, dispatched, removed,
           pendingAtStart, lastPlay, stopAllPhase, hvars>>

vars == <<qvars, evars, cvars, bvars, step>>

(***************************************************************************)
(* SPSCQueue<T, Size>                                                      *)
(***************************************************************************)
Slots == 0 .. (Size - 1)

\* A default-initialised T, and the payload carrying tag v.
DefaultItem == <<0, 0>>
Payload(v) == <<v, v>>

\* size(): write >= read ? write - read : Size - (read - write)
size == IF writeIndex >= readIndex THEN writeIndex - readIndex
        ELSE Size - (readIndex - writeIndex)

\* empty(): readIndex == writeIndex
empty == readIndex = writeIndex

\* full(): (writeIndex + 1) % Size == readIndex
full == ((writeIndex + 1) % Size) = readIndex

\* try_push: next = (current + 1) % Size
PushNext(current) == (current + 1) % Size

\* A full test that never reports full.
PushFullNever(next, read) == FALSE
\* try_push: if (next == readIndex.load(acquire)) return false
PushFull(next, read) == next = read

\* A read index that is stored back without the increment.
PopNextStuck(current) == current
\* try_pop: (current + 1) % Size
PopNext(current) == (current + 1) % Size

\* try_pop: if (current == writeIndex.load(acquire)) return nullopt
PopEmpty(current, write) == current = write

(***************************************************************************)
(* float arithmetic, modelled exactly on rationals <<numerator,            *)
(* denominator>> in lowest terms with a positive denominator.              *)
(***************************************************************************)
Abs(x) == IF x < 0 THEN -x ELSE x

RECURSIVE GCD(_, _)
GCD(a, b) == IF b = 0 THEN a ELSE GCD(b, a % b)

R(n, d) ==
  LET g == GCD(Abs(n), Abs(d))
      sgn == IF d < 0 THEN -1 ELSE 1
  IN  <<sgn * (n \div g), sgn * (d \div g)>>

Zero == <<0, 1>>
One == <<1, 1>>

RNeg(a) == <<-a[1], a[2]>>
RAdd(a, b) ==
  LET l == (a[2] \div GCD(a[2], b[2])) * b[2]
  IN  R(a[1] * (l \div a[2]) + b[1] * (l \div b[2]), l)
RSub(a, b) == RAdd(a, RNeg(b))
RMul(a, b) ==
  LET g1 == GCD(Abs(a[1]), b[2])
      g2 == GCD(Abs(b[1]), a[2])
  IN  R((a[1] \div g1) * (b[1] \div g2), (a[2] \div g2) * (b[2] \div g1))
RDiv(a, b) == RMul(a, IF b[1] < 0 THEN <<-b[2], -b[1]>> ELSE <<b[2], b[1]>>)
RLe(a, b) == RSub(a, b)[1] <= 0
RLt(a, b) == RSub(a, b)[1] < 0
RMax(a, b) == IF RLt(a, b) THEN b ELSE a
RMin(a, b) == IF RLt(b, a) THEN b ELSE a
RAbs(a) == <<Abs(a[1]), a[2]>>
\* std::clamp(v, lo, hi)
RClamp(v, lo, hi) == IF RLt(v, lo) THEN lo ELSE IF RLt(hi, v) THEN hi ELSE v
\* std::lerp(a, b, t) = a + t (b - a)
RLerp(a, b, t) == RAdd(a, RMul(t, RSub(b, a)))
\* static_cast<size_t>(x) of a non-negative float: truncation
Trunc(a) == a[1] \div a[2]

(***************************************************************************)
(* AudioFile and AudioCommand                                              *)
(***************************************************************************)
\* A null AudioFile pointer, and the decoded clips the control calls load.
\* addr identifies the object; size is samples.size().
NullFile == [addr |-> 0, size |-> 0, numChannels |-> 1, looping |-> FALSE]
\* playSound: a freshly loaded mono clip, m_looping = false
SoundFile == [addr |-> 1, size |-> ClipFrames, numChannels |-> 1, looping |-> FALSE]
\* playMusic: a freshly loaded mono clip after file->setLooping(loop)
MusicFile(loop) == [addr |-> 2, size |-> ClipFrames, numChannels |-> 1, looping |-> loop]

\* A default-constructed AudioCommand (id and src are history fields).
DefaultCommand ==
  [type |-> "None", file |-> NullFile, value1 |-> Zero, value2 |-> Zero,
   channelId |-> -1, flag |-> FALSE, id |-> 0, src |-> "none"]

(***************************************************************************)
(* AudioChannel                                                            *)
(***************************************************************************)
\* An AudioChannel as default-constructed (member initialisers of the class).
DefaultChannel ==
  [m_currentFile |-> NullFile, m_position |-> 0,
   m_volume |-> One, m_targetVolume |-> One,
   m_fadeTimeRemaining |-> Zero, m_fadeDuration |-> Zero,
   m_pitch |-> One, m_positionX |-> Zero, m_positionY |-> Zero,
   m_active |-> FALSE, m_currentSpeed |-> One, m_targetSpeed |-> One]

\* isActive(): m_active && m_currentFile != nullptr
isActive(ch) == ch.m_active /\ ch.m_currentFile # NullFile

\* A play that forgets m_active = true.
playWithoutActive(ch, file, vol) ==
  [ch EXCEPT !.m_currentFile = file, !.m_position = 0, !.m_volume = vol,
             !.m_targetVolume = vol, !.m_fadeTimeRemaining = Zero]

\* A play that leaves a fade in progress running.
playKeepsFade(ch, file, vol) ==
  [ch EXCEPT !.m_currentFile = file, !.m_position = 0, !.m_volume = vol,
             !.m_targetVolume = vol, !.m_active = TRUE]

\* AudioChannel::play
play(ch, file, vol) ==
  [ch EXCEPT !.m_currentFile = file, !.m_position = 0, !.m_volume = vol,
             !.m_targetVolume = vol, !.m_fadeTimeRemaining = Zero,
             !.m_active = TRUE]

\* A stop that keeps the clip reference.
stopKeepsClip(ch) ==
  [ch EXCEPT !.m_active = FALSE, !.m_position = 0]

\* AudioChannel::stop
stop(ch) ==
  [ch EXCEPT !.m_active = FALSE, !.m_currentFile = NullFile, !.m_position = 0]

\* A setVolume that leaves a fade in progress running.
setVolumeKeepsFade(ch, vol) ==
  LET v == RClamp(vol, Zero, One)
  IN  [ch EXCEPT !.m_volume = v, !.m_targetVolume = v]

\* AudioChannel::setVolume
setVolume(ch, vol) ==
  LET v == RClamp(vol, Zero, One)
  IN  [ch EXCEPT !.m_volume = v, !.m_targetVolume = v,
                 !.m_fadeTimeRemaining = Zero]

\* AudioChannel::setPitch
setPitch(ch, newPitch) ==
  [ch EXCEPT !.m_pitch = RClamp(newPitch, R(1, 10), R(3, 1))]

\* AudioChannel::setPosition
setPosition(ch, x, y) == [ch EXCEPT !.m_positionX = x, !.m_positionY = y]

\* AudioChannel::fadeVolume
fadeVolume(ch, tgt, duration) ==
  LET target == RClamp(tgt, Zero, One)
  IN  IF RLe(duration, Zero)
        THEN [ch EXCEPT !.m_volume = target, !.m_targetVolume = target,
                        !.m_fadeTimeRemaining = Zero]
        ELSE [ch EXCEPT !.m_targetVolume = target,
                        !.m_fadeDuration = duration,
                        !.m_fadeTimeRemaining = duration]

\* AudioChannel::setPlaybackSpeed
setPlaybackSpeed(ch, speed) ==
  [ch EXCEPT !.m_targetSpeed = RClamp(speed, R(1, 10), R(3, 1))]

\* An update that never stops the channel at the end of a fade.
updateWithoutStop(ch, deltaTime) ==
  IF ~ch.m_active \/ ch.m_currentFile = NullFile THEN ch
  ELSE
    LET c1 == [ch EXCEPT !.m_currentSpeed =
                 RLerp(ch.m_currentSpeed, ch.m_targetSpeed,
                       RMul(deltaTime, R(8, 1)))]
    IN  IF RLt(Zero, c1.m_fadeTimeRemaining)
          THEN LET rem == RMax(Zero, RSub(c1.m_fadeTimeRemaining, deltaTime))
                   t == RSub(One, RDiv(rem, c1.m_fadeDuration))
                   vol == RLerp(c1.m_volume, c1.m_targetVolume, t)
               IN  [c1 EXCEPT !.m_fadeTimeRemaining = rem, !.m_volume = vol]
          ELSE c1

\* AudioChannel::update
update(ch, deltaTime) ==
  IF ~ch.m_active \/ ch.m_currentFile = NullFile THEN ch
  ELSE
    LET c1 == [ch EXCEPT !.m_currentSpeed =
                 RLerp(ch.m_currentSpeed, ch.m_targetSpeed,
                       RMul(deltaTime, R(8, 1)))]
    IN  IF RLt(Zero, c1.m_fadeTimeRemaining)
          THEN LET rem == RMax(Zero, RSub(c1.m_fadeTimeRemaining, deltaTime))
                   t == RSub(One, RDiv(rem, c1.m_fadeDuration))
                   vol == RLerp(c1.m_volume, c1.m_targetVolume, t)
                   c2 == [c1 EXCEPT !.m_fadeTimeRemaining = rem, !.m_volume = vol]
               IN  IF rem = Zero /\ RLe(vol, Zero) THEN stop(c2) ELSE c2
          ELSE c1

\* AudioChannel::mix, the per-frame loop (lines 50-76): the channel and the
\* read position after the frames from `frame` on.
RECURSIVE MixLoop(_, _, _, _)
MixLoop(ch, readPosition, frame, frames) ==
  IF frame >= frames THEN [ch |-> ch, readPosition |-> readPosition]
  ELSE
    LET effectivePitch == RMul(ch.m_pitch, ch.m_currentSpeed)
        rp == RAdd(readPosition, effectivePitch)
        limit == ch.m_currentFile.size \div ch.m_currentFile.numChannels
    IN  IF Trunc(rp) >= limit
          THEN IF ch.m_currentFile.looping
                 THEN MixLoop(ch, Zero, frame + 1, frames)
                 ELSE [ch |-> stop(ch), readPosition |-> rp]
          ELSE MixLoop(ch, rp, frame + 1, frames)

\* AudioChannel::mix: its effect on the channel (the cursor, the stop at the end
\* of a non-looping clip); line 78 stores the cursor after the loop.
mix(ch, frames) ==
  IF ~ch.m_active \/ ch.m_currentFile = NullFile \/ RLe(ch.m_volume, Zero)
    THEN ch
    ELSE LET r == MixLoop(ch, R(ch.m_position, 1), 0, frames)
         IN  [r.ch EXCEPT !.m_position = Trunc(r.readPosition)]

(***************************************************************************)
(* AudioChannel::mix with its output buffer and its sample reads.          *)
(***************************************************************************)
\* Further decoded clips: a WAV file with an empty data chunk, and a stereo
\* clip of two frames (loadWAV accepts both).
EmptyClip == [addr |-> 3, size |-> 0, numChannels |-> 1, looping |-> FALSE]
StereoSamples == <<One, Zero, R(1, 2), R(-1, 2)>>
StereoClip ==
  [addr |-> 4, size |-> Len(StereoSamples), numChannels |-> 2, looping |-> FALSE]

\* m_samples of a clip.
Samples(file) ==
  IF file.addr = StereoClip.addr THEN StereoSamples
  ELSE [k \in 1 .. file.size |-> R(k, file.size)]

\* data[i]: the sample at index i; a read at or beyond size() is outside the
\* vector's storage and yields whatever is there (g).
data(file, i, g) == IF i < file.size THEN Samples(file)[i + 1] ELSE g

\* interpolateSample, lines 176-187: the Hermite basis functions h0..h3 of
\* t = frac with t2 = t * t and t3 = t2 * t, and the interpolated value.
Hermite(p0, p1, p2, p3, t, t2, t3) ==
  LET h0 == RSub(RAdd(RMul(R(-1, 2), t3), t2), RMul(R(1, 2), t))
      h1 == RAdd(RSub(RMul(R(3, 2), t3), RMul(R(5, 2), t2)), One)
      h2 == RAdd(RAdd(RMul(R(-3, 2), t3), RMul(R(2, 1), t2)), RMul(R(1, 2), t))
      h3 == RSub(RMul(R(1, 2), t3), RMul(R(1, 2), t2))
  IN  RAdd(RAdd(RMul(p0, h0), RMul(p1, h1)), RAdd(RMul(p2, h2), RMul(p3, h3)))

\* interpolateSample, lines 170-173: the four samples read at pos0..pos3.
SamplePoints(file, pos0, pos1, pos2, pos3, frac, g) ==
  [value |-> Hermite(data(file, pos0, g), data(file, pos1, g),
                     data(file, pos2, g), data(file, pos3, g),
                     frac, RMul(frac, frac), RMul(RMul(frac, frac), frac)),
   reads |-> {pos0, pos1, pos2, pos3}]

\* AudioChannel::interpolateSample: the value returned and the indices read.
interpolateSample(ch, position, g) ==
  IF ch.m_currentFile = NullFile THEN [value |-> Zero, reads |-> {}]
  ELSE
    LET file == ch.m_currentFile
        pos1 == Trunc(position)
        frac == RSub(position, R(pos1, 1))
        pos0 == IF pos1 = 0 THEN pos1 ELSE pos1 - 1
        pos2 == IF pos1 + 1 >= file.size THEN pos1 ELSE pos1 + 1
        pos3 == IF pos1 + 2 >= file.size THEN pos2 ELSE pos1 + 2
    IN  SamplePoints(file, pos0, pos1, pos2, pos3, frac, g)

\* AudioChannel::calculatePanLeft
calculatePanLeft(ch) ==
  IF ch.m_positionX = Zero THEN One
  ELSE RClamp(RSub(One, RMul(ch.m_positionX, R(1, 2))), Zero, One)

\* AudioChannel::calculatePanRight
calculatePanRight(ch) ==
  IF ch.m_positionX = Zero THEN One
  ELSE RClamp(RAdd(One, RMul(ch.m_positionX, R(1, 2))), Zero, One)

\* std::sqrt of a rational that is a perfect square.
RSqrt(a) ==
  <<CHOOSE k \in 0 .. a[1] : k * k = a[1], CHOOSE k \in 1 .. a[2] : k * k = a[2]>>

\* std::pow(a, 2.0f)
Squared(a) == RMul(a, a)

\* applySpatialization, lines 142-146 (DISTANCE_FALLOFF = 1): the attenuation at a distance.
Attenuation(distance) ==
  IF RLt(Zero, distance)
    THEN Squared(RMin(One, RDiv(One, RAdd(One, distance))))
    ELSE One

\* applySpatialization, lines 149-150: panning applied to left and right.
Panned(ch, left, right, attenuation) ==
  [left |-> RMul(left, RMul(calculatePanLeft(ch), attenuation)),
   right |-> RMul(right, RMul(calculatePanRight(ch), attenuation))]

\* AudioChannel::applySpatialization: the gains it leaves in left and right.
applySpatialization(ch, left, right) ==
  Panned(ch, left, right,
         Attenuation(RSqrt(RAdd(RMul(ch.m_positionX, ch.m_positionX),
                                RMul(ch.m_positionY, ch.m_positionY)))))

\* A store that replaces the buffer entry.
Overwrite(buf, i, v) == [buf EXCEPT ![i + 1] = v]

\* buffer[i] += v (lines 64-65); buffer[i] is the entry i + 1 of the sequence.
Accumulate(buf, i, v) == [buf EXCEPT ![i + 1] = RAdd(@, v)]

\* A guard that lets a silent channel through.
mixGuardIgnoresVolume(ch) == ~ch.m_active \/ ch.m_currentFile = NullFile

\* mix, lines 40-41: the early return.
mixGuard(ch) ==
  ~ch.m_active \/ ch.m_currentFile = NullFile \/ RLe(ch.m_volume, Zero)

\* mix, lines 55-57: (leftSample + rightSample) * 0.5 of a stereo clip.
StereoSample(leftSample, rightSample) ==
  [value |-> RMul(RAdd(leftSample.value, rightSample.value), R(1, 2)),
   reads |-> leftSample.reads \cup rightSample.reads]

\* mix, lines 60-67: the two stores of a frame and the advance of
\* readPosition, given the frame's sample and gains.
Stored(s, sample, gain) ==
  [s EXCEPT
     !.buffer = Accumulate(Accumulate(@, s.frame * 2,
                                      RMul(sample.value, gain.left)),
                           s.frame * 2 + 1, RMul(sample.value, gain.right)),
     !.reads = @ \cup sample.reads,
     !.readPosition = RAdd(@, RMul(s.ch.m_pitch, s.ch.m_currentSpeed))]

\* mix, one pass of the frame loop body up to readPosition += effectivePitch
\* (lines 51-67). s carries the channel, readPosition, the buffer, the sample
\* indices read so far, the frame number and the frame at which stop() was
\* called (-1: the end was not reached).
mixFrame(s, g) ==
  Stored(s,
         IF s.ch.m_currentFile.numChannels = 1
           THEN interpolateSample(s.ch, s.readPosition, g)
           ELSE StereoSample(
                  interpolateSample(s.ch, RMul(s.readPosition, R(2, 1)), g),
                  interpolateSample(s.ch, RAdd(RMul(s.readPosition, R(2, 1)),
                                               One), g)),
         applySpatialization(s.ch, s.ch.m_volume, s.ch.m_volume))

\* mix, the frame loop (lines 50-76) from frame s.frame on; s1 is the state
\* after the pass of mixFrame, tested by lines 68-75.
RECURSIVE mixFrames(_, _, _)
mixFrames(s, frames, g) ==
  IF s.frame >= frames THEN s
  ELSE
    CHOOSE result \in
      {IF Trunc(s1.readPosition) >=
            s1.ch.m_currentFile.size \div s1.ch.m_currentFile.numChannels
         THEN IF s1.ch.m_currentFile.looping
                THEN mixFrames([s1 EXCEPT !.readPosition = Zero,
                                          !.frame = @ + 1], frames, g)
                ELSE [s1 EXCEPT !.ch = stop(s1.ch), !.endFrame = s1.frame]
         ELSE mixFrames([s1 EXCEPT !.frame = @ + 1], frames, g) :
       s1 \in {mixFrame(s, g)}} : TRUE

\* mix, line 78: m_position = static_cast<size_t>(readPosition)
StoreCursor(s) == [s EXCEPT !.ch.m_position = Trunc(s.readPosition)]

\* AudioChannel::mix(buffer, frames): the channel and the buffer it leaves, the
\* sample indices it read, and the frame at which the clip ended.
mixInto(ch, buf, frames, g) ==
  IF mixGuard(ch)
    THEN [ch |-> ch, readPosition |-> R(ch.m_position, 1), buffer |-> buf,
          reads |-> {}, frame |-> 0, endFrame |-> -1]
    ELSE StoreCursor(mixFrames(
           [ch |-> ch, readPosition |-> R(ch.m_position, 1), buffer |-> buf,
            reads |-> {}, frame |-> 0, endFrame |-> -1], frames, g))

(***************************************************************************)
(* SPSCQueue / AudioQueue as used by the engine: one step per operation.   *)
(***************************************************************************)
\* SPSCQueue::try_push on queue q: the result and the queue after it.
try_push(q, item) ==
  LET current == q.writeIndex
      next == PushNext(current)
  IN  IF PushFull(next, q.readIndex)
        THEN [ok |-> FALSE, q |-> q]
        ELSE [ok |-> TRUE,
              q |-> [q EXCEPT !.buffer[current] = item, !.writeIndex = next]]

\* SPSCQueue::try_pop on queue q: the optional item and the queue after it.
\* AudioCommand declares its copy operations, so std::move copies the slot.
try_pop(q) ==
  LET current == q.readIndex
  IN  IF PopEmpty(current, q.writeIndex)
        THEN [ok |-> FALSE, item |-> DefaultCommand, q |-> q]
        ELSE [ok |-> TRUE, item |-> q.buffer[current],
              q |-> [q EXCEPT !.readIndex = PopNext(current)]]

\* The slots between the read and the write index, oldest first.
RECURSIVE QueuedFrom(_, _)
QueuedFrom(q, i) ==
  IF i = q.writeIndex THEN <<>>
  ELSE <<q.buffer[i]>> \o QueuedFrom(q, (i + 1) % Size)
Queued(q) == QueuedFrom(q, q.readIndex)
QueuedIds(q) == {Queued(q)[k].id : k \in 1 .. Len(Queued(q))}

\* AudioQueue::pushPlay
pushPlay(file, volume, channelId) ==
  [DefaultCommand EXCEPT !.type = "Play", !.file = file, !.value1 = volume,
                         !.channelId = channelId]
\* AudioQueue::pushStop
pushStop(channelId) ==
  [DefaultCommand EXCEPT !.type = "Stop", !.channelId = channelId]
\* AudioQueue::pushVolume
pushVolume(channelId, volume) ==
  [DefaultCommand EXCEPT !.type = "SetVolume", !.value1 = volume,
                         !.channelId = channelId]
\* AudioQueue::pushFade
pushFade(channelId, targetVolume, duration) ==
  [DefaultCommand EXCEPT
     !.type = IF RLt(Zero, targetVolume) THEN "FadeIn" ELSE "FadeOut",
     !.value1 = RAbs(targetVolume), !.value2 = duration,
     !.channelId = channelId]

(***************************************************************************)
(* AudioEngine                                                             *)
(***************************************************************************)
Channels == 0 .. (MAX_CHANNELS - 1)

Min(S) == CHOOSE x \in S : \A y \in S : x <= y

\* findFreeChannel, lines 383-388: the loop from index i on
RECURSIVE FreeChannelFrom(_, _)
FreeChannelFrom(channels, i) ==
  IF i >= MAX_CHANNELS THEN -1
  ELSE IF ~isActive(channels[i]) THEN i
  ELSE FreeChannelFrom(channels, i + 1)

\* The same scan started at channel 0.
findFreeChannelFromZero(channels) == FreeChannelFrom(channels, 0)
\* AudioEngine::findFreeChannel: the scan starts at 1 (channel 0 is the music's)
findFreeChannel(channels) == FreeChannelFrom(channels, 1)

\* The guard of stopChannel, setChannelVolume, fadeChannel, ...
ValidChannel(channelId) == channelId >= 0 /\ channelId < MAX_CHANNELS

\* A handler that plays whatever a Play command carries, a null clip included.
HandleWithoutFileCheck(channels, cmd) ==
  IF cmd.channelId < 0 \/ cmd.channelId >= MAX_CHANNELS THEN channels
  ELSE
    LET channel == channels[cmd.channelId]
        after ==
          CASE cmd.type = "Play" -> play(channel, cmd.file, cmd.value1)
            [] cmd.type = "Stop" -> stop(channel)
            [] cmd.type = "SetVolume" -> setVolume(channel, cmd.value1)
            [] cmd.type \in {"FadeIn", "FadeOut"} ->
                 fadeVolume(channel, cmd.value1, cmd.value2)
            [] cmd.type = "SetPitch" -> setPitch(channel, cmd.value1)
            [] cmd.type = "SetPosition" ->
                 setPosition(channel, cmd.value1, cmd.value2)
            [] OTHER -> channel
    IN  [channels EXCEPT ![cmd.channelId] = after]

\* AudioEngine::processCommands, the handler applied to one command
Handle(channels, cmd) ==
  IF cmd.channelId < 0 \/ cmd.channelId >= MAX_CHANNELS THEN channels
  ELSE
    LET channel == channels[cmd.channelId]
        after ==
          CASE cmd.type = "Play" ->
                 IF cmd.file # NullFile
                   THEN play(channel, cmd.file, cmd.value1) ELSE channel
            [] cmd.type = "Stop" -> stop(channel)
            [] cmd.type = "SetVolume" -> setVolume(channel, cmd.value1)
            [] cmd.type \in {"FadeIn", "FadeOut"} ->
                 fadeVolume(channel, cmd.value1, cmd.value2)
            [] cmd.type = "SetPitch" -> setPitch(channel, cmd.value1)
            [] cmd.type = "SetPosition" ->
                 setPosition(channel, cmd.value1, cmd.value2)
            [] cmd.type = "SetLoop" ->
                 \* cmd.file->setLooping(cmd.flag) touches the command's own
                 \* file, which pushLoop leaves null: the channel is untouched
                 channel
            [] OTHER -> channel
    IN  [channels EXCEPT ![cmd.channelId] = after]

\* AudioEngine::audioCallback, lines 354-362: update, setPlaybackSpeed and mix
\* of every active channel, in index order from channel i on.
RECURSIVE MixChannels(_, _, _, _, _)
MixChannels(channels, i, deltaTime, speed, frames) ==
  IF i >= MAX_CHANNELS THEN channels
  ELSE
    LET after ==
          IF isActive(channels[i])
            THEN mix(setPlaybackSpeed(update(channels[i], RMul(deltaTime, speed)),
                                      speed),
                     frames)
            ELSE channels[i]
    IN  MixChannels([channels EXCEPT ![i] = after], i + 1, deltaTime, speed, frames)

(***************************************************************************)
(* AudioEngine::audioCallback with the stream buffer                       *)
(***************************************************************************)
\* AudioEngine::SHUTDOWN_RAMP_DURATION, as the time of RampFrames frames.
SHUTDOWN_RAMP_DURATION == R(RampFrames, DEFAULT_SAMPLE_RATE)

\* AudioQueue::pushLoop
pushLoop(channelId, shouldLoop) ==
  [DefaultCommand EXCEPT !.type = "SetLoop", !.channelId = channelId,
                         !.flag = shouldLoop]

\* AudioSystem::processAudio, line 97: the frame count handed to the callback
\* for a stream of len bytes.
processAudio(len, numOutputChannels) ==
  len \div (SizeofFloat * numOutputChannels)

\* AudioQueue::processCommands with the handler of AudioEngine::processCommands:
\* pops and handles until try_pop returns nothing. handled lists every command
\* popped with the channel bank its handler call left.
RECURSIVE processCommands(_, _, _)
processCommands(channels, q, handled) ==
  LET r == try_pop(q)
  IN  IF r.ok
        THEN processCommands(Handle(channels, r.item), r.q,
                             Append(handled,
                                    [cmd |-> r.item,
                                     after |-> Handle(channels, r.item)]))
        ELSE [channels |-> channels, q |-> q, handled |-> handled]

\* audioCallback, lines 357-360: what one active channel does to the bank, the
\* buffer and the count of active channels; r is the result of its mix.
ChannelMixed(s, i, r) ==
  [s EXCEPT !.channels[i] = r.ch, !.buffer = r.buffer,
            !.m_activeChannels = @ + 1]

\* audioCallback, lines 354-362: the loop over the channel bank from index i
\* on. The clips of the bank are mono and not empty: mix reads inside them.
RECURSIVE MixBank(_, _, _, _, _)
MixBank(s, i, deltaTime, speed, frames) ==
  IF i >= MAX_CHANNELS THEN s
  ELSE IF isActive(s.channels[i])
    THEN MixBank(ChannelMixed(s, i,
                   mixInto(setPlaybackSpeed(update(s.channels[i],
                                                   RMul(deltaTime, speed)),
                                            speed),
                           s.buffer, frames, Zero)),
                 i + 1, deltaTime, speed, frames)
    ELSE MixBank(s, i + 1, deltaTime, speed, frames)

\* audioCallback, lines 366-369: the peak of the first n samples from i on.
RECURSIVE PeakAmplitude(_, _, _, _)
PeakAmplitude(buf, i, n, peakAmplitude) ==
  IF i >= n THEN peakAmplitude
  ELSE PeakAmplitude(buf, i + 1, n, RMax(peakAmplitude, RAbs(buf[i + 1])))

\* audioCallback, lines 371-372
NormalizationFactor(peakAmplitude) ==
  IF RLt(One, peakAmplitude) THEN RDiv(One, peakAmplitude) ELSE One

\* A limiter that clamps each sample instead of scaling the buffer.
LimitedByClampOnly(buf, finalGain) ==
  [k \in DOMAIN buf |-> RClamp(buf[k], R(-1, 1), One)]

\* audioCallback, lines 375-377: the gain and the clamp of every sample.
Limited(buf, finalGain) ==
  [k \in DOMAIN buf |-> RClamp(RMul(buf[k], finalGain), R(-1, 1), One)]

\* audioCallback, line 339: std::memset(buffer, 0, frames * DEFAULT_CHANNELS *
\* sizeof(float)), as the sample indices it zeroes.
Zeroed(frames) ==
  {b \div SizeofFloat : b \in 0 .. (frames * DEFAULT_CHANNELS * SizeofFloat - 1)}

\* A ramp gain without the std::max(0.0f, ...).
ShutdownRampBelowZero(requested, remaining) ==
  IF requested THEN RDiv(remaining, SHUTDOWN_RAMP_DURATION) ELSE One

\* audioCallback, lines 346-351: the ramp gain of this callback.
ShutdownRamp(requested, remaining) ==
  IF requested THEN RMax(Zero, RDiv(remaining, SHUTDOWN_RAMP_DURATION)) ELSE One

\* audioCallback, lines 364-378: the samples after normalisation, master volume
\* and ramp; untouched when no channel was active.
Normalized(s, frames, master, shutdownRamp) ==
  IF s.m_activeChannels > 0
    THEN Limited(s.buffer,
                 RMul(RMul(NormalizationFactor(
                             PeakAmplitude(s.buffer, 0,
                                           frames * DEFAULT_CHANNELS, Zero)),
                           master),
                      shutdownRamp))
    ELSE s.buffer

(***************************************************************************)
(* Initial values                                                          *)
(***************************************************************************)
QVarsInit ==
  /\ writeIndex = 0
  /\ readIndex = 0
  /\ buffer = [i \in Slots |-> DefaultItem]
  /\ pPc = "idle" /\ pCur = 0 /\ pItem = 0 /\ pRes = "none"
  /\ cPc = "idle" /\ cCur = 0 /\ cItem = DefaultItem /\ cRes = "none"
  /\ calls = 0
  /\ pushed = <<>>
  /\ rejected = {}
  /\ popped = <<>>

NoArg == [i |-> 0, channel |-> -1, volume |-> One, file |-> NullFile]
NoPlay == [id |-> 0, src |-> "none", channelId |-> -1, wasActive |-> FALSE]
NoMusic == [phase |-> "none", stopId |-> 0, playId |-> 0, file |-> NullFile]
NoFade == [id |-> 0, channelId |-> -1, target |-> Zero]

\* AudioEngine::AudioEngine: every channel gets setVolume(1), setPitch(1),
\* setPosition(0, 0); the queue is empty; m_gameSpeed = 1.
EVarsInit ==
  /\ m_channels =
       [c \in Channels |->
          setPosition(setPitch(setVolume(DefaultChannel, One), One), Zero, Zero)]
  /\ m_commandQueue =
       [writeIndex |-> 0, readIndex |-> 0,
        buffer |-> [i \in Slots |-> DefaultCommand]]
  /\ m_gameSpeed = One
  /\ gPc = "idle"
  /\ gArg = NoArg
  /\ aPc = "idle"
  /\ issued = 0
  /\ accepted = {}
  /\ dispatched = <<>>
  /\ removed = {}
  /\ pendingAtStart = {}
  /\ lastPlay = NoPlay
  /\ stopAllPhase = "none"
  /\ music = NoMusic
  /\ fadeArg = <<>>
  /\ lastFade = NoFade

\* No call made yet; no play or setVolume in force; no fade started.
NoCall ==
  [op |-> "none", pre |-> DefaultChannel, preOut |-> <<>>, file |-> NullFile,
   v |-> Zero, d |-> Zero, frames |-> 0, reads |-> {}, endFrame |-> -1,
   other |-> DefaultChannel, order |-> "none", g |-> Zero]
NoHold == [by |-> "none", arg |-> Zero, cancelled |-> FALSE]
NoFadeStarted ==
  [on |-> FALSE, v0 |-> Zero, target |-> Zero, d |-> Zero, elapsed |-> Zero,
   updates |-> 0]

\* The channel as AudioEngine::AudioEngine leaves it, and no output yet.
CVarsInit ==
  /\ chan = setPosition(setPitch(setVolume(DefaultChannel, One), One), Zero, Zero)
  /\ outBuf = <<>>
  /\ ops = 0
  /\ last = NoCall
  /\ hold = NoHold
  /\ fade = NoFadeStarted

\* No callback made yet.
NoCallback ==
  [samples |-> 0, frames |-> 0, numOutputChannels |-> 0, streamLen |-> 0,
   zeroed |-> {}, written |-> {}, pre |-> <<>>, queued |-> <<>>,
   handled |-> <<>>, mixed |-> <<>>, out |-> <<>>, m_activeChannels |-> 0,
   requested |-> FALSE, shutdownRamp |-> One, master |-> One]

\* The members of AudioEngine set by their initialisers (audio_engine.h
\* 203-206); no device opened, nothing pushed, no callback made.
BVarsInit ==
  /\ m_config = [numOutputChannels |-> 0, bufferSize |-> 0]
  /\ m_masterVolume = One
  /\ m_shutdownRequested = FALSE
  /\ m_shutdownRampRemaining = Zero
  /\ sPc = [pc |-> "idle", seen |-> 0]
  /\ pushes = 0
  /\ callbacks = 0
  /\ cb = NoCallback
  /\ ramps = <<>>

(***************************************************************************)
(* QSpec: the ring buffer, one producer, one consumer, step by step        *)
(***************************************************************************)
QInit == QVarsInit /\ EVarsInit /\ CVarsInit /\ BVarsInit /\ step = "none"

\* try_push, line 46: current = writeIndex.load(relaxed)
try_push_load ==
  /\ UNCHANGED <<evars, cvars, bvars>>
  /\ pPc = "idle"
  /\ calls < MaxPush
  /\ calls' = calls + 1
  /\ pItem' = calls + 1
  /\ pCur' = writeIndex
  /\ pPc' = "check"
  /\ pRes' = "none"
  /\ step' = "try_push_load"
  /\ UNCHANGED <<writeIndex, readIndex, buffer, cPc, cCur, cItem, cRes,
                 pushed, rejected, popped>>

\* try_push with writeIndex.store hoisted above the payload write (lines 53-54
\* in the opposite order).
try_push_check_publish_early ==
  /\ UNCHANGED <<evars, cvars, bvars>>
  /\ pPc = "check"
  /\ step' = "try_push_check"
  /\ IF PushFull(PushNext(pCur), readIndex)
       THEN /\ pPc' = "idle"
            /\ pRes' = "false"
            /\ rejected' = rejected \cup {pItem}
            /\ UNCHANGED writeIndex
       ELSE /\ pPc' = "write_lo"
            /\ writeIndex' = PushNext(pCur)
            /\ UNCHANGED <<pRes, rejected>>
  /\ UNCHANGED <<readIndex, buffer, pCur, pItem,
                 cPc, cCur, cItem, cRes, calls, pushed, popped>>

\* try_push, lines 47-51: the full test against the acquire-loaded readIndex
try_push_check ==
  /\ UNCHANGED <<evars, cvars, bvars>>
  /\ pPc = "check"
  /\ step' = "try_push_check"
  /\ IF PushFull(PushNext(pCur), readIndex)
       THEN /\ pPc' = "idle"
            /\ pRes' = "false"
            /\ rejected' = rejected \cup {pItem}
       ELSE /\ pPc' = "write_lo"
            /\ UNCHANGED <<pRes, rejected>>
  /\ UNCHANGED <<writeIndex, readIndex, buffer, pCur, pItem,
                 cPc, cCur, cItem, cRes, calls, pushed, popped>>

\* try_push, line 53: buffer[current] = item, first word of the payload
try_push_write_lo ==
  /\ UNCHANGED <<evars, cvars, bvars>>
  /\ pPc = "write_lo"
  /\ buffer' = [buffer EXCEPT ![pCur] = <<pItem, @[2]>>]
  /\ pPc' = "write_hi"
  /\ step' = "try_push_write_lo"
  /\ UNCHANGED <<writeIndex, readIndex, pCur, pItem, pRes,
                 cPc, cCur, cItem, cRes, calls, pushed, rejected, popped>>

\* try_push, line 53: buffer[current] = item, second word of the payload
try_push_write_hi ==
  /\ UNCHANGED <<evars, cvars, bvars>>
  /\ pPc = "write_hi"
  /\ buffer' = [buffer EXCEPT ![pCur] = <<@[1], pItem>>]
  /\ pPc' = "store"
  /\ step' = "try_push_write_hi"
  /\ UNCHANGED <<writeIndex, readIndex, pCur, pItem, pRes,
                 cPc, cCur, cItem, cRes, calls, pushed, rejected, popped>>

\* try_push, lines 54-55: writeIndex.store(next, release); return true
try_push_store ==
  /\ UNCHANGED <<evars, cvars, bvars>>
  /\ pPc = "store"
  /\ writeIndex' = PushNext(pCur)
  /\ pPc' = "idle"
  /\ pRes' = "true"
  /\ pushed' = Append(pushed, pItem)
  /\ step' = "try_push_store"
  /\ UNCHANGED <<readIndex, buffer, pCur, pItem,
                 cPc, cCur, cItem, cRes, calls, rejected, popped>>

\* try_pop, line 60: current = readIndex.load(relaxed)
try_pop_load ==
  /\ UNCHANGED <<evars, cvars, bvars>>
  /\ cPc = "idle"
  /\ cCur' = readIndex
  /\ cPc' = "check"
  /\ cRes' = "none"
  /\ step' = "try_pop_load"
  /\ UNCHANGED <<writeIndex, readIndex, buffer, pPc, pCur, pItem, pRes,
                 cItem, calls, pushed, rejected, popped>>

\* try_pop, lines 62-64: the empty test against the acquire-loaded writeIndex
try_pop_check ==
  /\ UNCHANGED <<evars, cvars, bvars>>
  /\ cPc = "check"
  /\ step' = "try_pop_check"
  /\ IF PopEmpty(cCur, writeIndex)
       THEN /\ cPc' = "idle"
            /\ cRes' = "nullopt"
       ELSE /\ cPc' = "copy_lo"
            /\ UNCHANGED cRes
  /\ UNCHANGED <<writeIndex, readIndex, buffer, pPc, pCur, pItem, pRes,
                 cCur, cItem, calls, pushed, rejected, popped>>

\* try_pop, line 66: T item = std::move(buffer[current]), first word
try_pop_copy_lo ==
  /\ UNCHANGED <<evars, cvars, bvars>>
  /\ cPc = "copy_lo"
  /\ cItem' = <<buffer[cCur][1], cItem[2]>>
  /\ cPc' = "copy_hi"
  /\ step' = "try_pop_copy_lo"
  /\ UNCHANGED <<writeIndex, readIndex, buffer, pPc, pCur, pItem, pRes,
                 cCur, cRes, calls, pushed, rejected, popped>>

\* try_pop, line 66: T item = std::move(buffer[current]), second word
try_pop_copy_hi ==
  /\ UNCHANGED <<evars, cvars, bvars>>
  /\ cPc = "copy_hi"
  /\ cItem' = <<cItem[1], buffer[cCur][2]>>
  /\ cPc' = "store"
  /\ step' = "try_pop_copy_hi"
  /\ UNCHANGED <<writeIndex, readIndex, buffer, pPc, pCur, pItem, pRes,
                 cCur, cRes, calls, pushed, rejected, popped>>

\* try_pop, lines 67-68: readIndex.store((current + 1) % Size, release); return item
try_pop_store ==
  /\ UNCHANGED <<evars, cvars, bvars>>
  /\ cPc = "store"
  /\ readIndex' = PopNext(cCur)
  /\ cPc' = "idle"
  /\ cRes' = "value"
  /\ popped' = Append(popped, cItem)
  /\ step' = "try_pop_store"
  /\ UNCHANGED <<writeIndex, buffer, pPc, pCur, pItem, pRes,
                 cCur, cItem, calls, pushed, rejected>>

QNext ==
  \/ try_push_load
  \/ try_push_check
  \/ try_push_write_lo
  \/ try_push_write_hi
  \/ try_push_store
  \/ try_pop_load
  \/ try_pop_check
  \/ try_pop_copy_lo
  \/ try_pop_copy_hi
  \/ try_pop_store

QSpec == QInit /\ [][QNext]_vars

(***************************************************************************)
(* Spec: the engine. The game thread issues control calls, one step per    *)
(* queue operation; the audio thread runs audioCallback, one step per      *)
(* popped command and one step for the update/mix pass.                    *)
(***************************************************************************)
\* Arguments the game thread passes to the control calls.
ChannelArgs == -1 .. MAX_CHANNELS
PlayVolumes == {One, R(5, 1)}
VolumeArgs == {Zero, One}
FadeTargets == {Zero, R(-1, 2)}
FadeDurations == {R(2, DEFAULT_SAMPLE_RATE)}

Init == QVarsInit /\ EVarsInit /\ CVarsInit /\ BVarsInit /\ step = "none"

\* A control call may start: the game thread is between calls.
CallStart ==
  /\ gPc = "idle"
  /\ issued < MaxCalls
  /\ issued' = issued + 1

\* m_commandQueue.try_push(cmd) by the game thread, with the history kept.
GamePush(cmd, src) ==
  LET c == [cmd EXCEPT !.id = Cardinality(accepted) + 1, !.src = src]
      r == try_push(m_commandQueue, c)
  IN  /\ m_commandQueue' = r.q
      /\ accepted' = IF r.ok THEN accepted \cup {c.id} ELSE accepted

\* The id given to the command of the push just made, 0 if it was rejected.
PushedId == IF accepted' # accepted THEN Cardinality(accepted) + 1 ELSE 0

\* playSound, lines 221-223: load the file, findFreeChannel()
playSound_find ==
  /\ CallStart
  /\ step' = "playSound_find"
  /\ \E vol \in PlayVolumes :
       LET channel == findFreeChannel(m_channels)
       IN  IF channel # -1
             THEN /\ gPc' = "playSound_push"
                  /\ gArg' = [NoArg EXCEPT !.channel = channel, !.volume = vol,
                                           !.file = SoundFile]
             ELSE /\ gPc' = "idle"
                  /\ gArg' = NoArg
  /\ stopAllPhase' = "none"
  /\ music' = NoMusic
  /\ UNCHANGED <<m_channels, m_commandQueue, m_gameSpeed, aPc, accepted,
                 dispatched, removed, pendingAtStart, lastPlay, fadeArg,
                 lastFade, qvars, cvars, bvars>>

\* playSound, line 224: m_commandQueue.pushPlay(file, m_volume, channel)
playSound_push ==
  /\ gPc = "playSound_push"
  /\ GamePush(pushPlay(gArg.file, gArg.volume, gArg.channel), "playSound")
  /\ gPc' = "idle"
  /\ gArg' = NoArg
  /\ step' = "playSound_push"
  /\ UNCHANGED <<m_channels, m_gameSpeed, aPc, issued, dispatched, removed,
                 pendingAtStart, lastPlay, stopAllPhase, hvars, qvars, cvars, bvars>>

\* playMusic, lines 235-239: load the file, setLooping(loop), stopChannel(0)
playMusic_stop ==
  /\ CallStart
  /\ step' = "playMusic_stop"
  /\ \E loop \in BOOLEAN :
       gArg' = [NoArg EXCEPT !.channel = 0, !.file = MusicFile(loop)]
  /\ GamePush(pushStop(0), "playMusic")
  /\ gPc' = "playMusic_play"
  /\ stopAllPhase' = "none"
  /\ music' = [phase |-> "calling", stopId |-> PushedId, playId |-> 0,
               file |-> gArg'.file]
  /\ UNCHANGED <<m_channels, m_gameSpeed, aPc, dispatched, removed,
                 pendingAtStart, lastPlay, fadeArg, lastFade, qvars, cvars, bvars>>

\* playMusic, line 242: m_commandQueue.pushPlay(file, 1.0f, 0)
playMusic_play ==
  /\ gPc = "playMusic_play"
  /\ GamePush(pushPlay(gArg.file, One, 0), "playMusic")
  /\ gPc' = "idle"
  /\ gArg' = NoArg
  /\ step' = "playMusic_play"
  /\ music' = IF music.stopId # 0 /\ PushedId # 0
                THEN [music EXCEPT !.phase = "returned", !.playId = PushedId]
                ELSE NoMusic
  /\ UNCHANGED <<m_channels, m_gameSpeed, aPc, issued, dispatched, removed,
                 pendingAtStart, lastPlay, stopAllPhase, fadeArg, lastFade,
                 qvars, cvars, bvars>>

\* AudioEngine::stopChannel
stopChannel ==
  /\ CallStart
  /\ step' = "stopChannel"
  /\ \E channelId \in ChannelArgs :
       IF ValidChannel(channelId)
         THEN GamePush(pushStop(channelId), "stopChannel")
         ELSE UNCHANGED <<m_commandQueue, accepted>>
  /\ stopAllPhase' = "none"
  /\ music' = NoMusic
  /\ UNCHANGED <<m_channels, m_gameSpeed, gPc, gArg, aPc, dispatched, removed,
                 pendingAtStart, lastPlay, fadeArg, lastFade, qvars, cvars, bvars>>

\* AudioEngine::setChannelVolume
setChannelVolume ==
  /\ CallStart
  /\ step' = "setChannelVolume"
  /\ \E channelId \in ChannelArgs, volume \in VolumeArgs :
       IF ValidChannel(channelId)
         THEN GamePush(pushVolume(channelId, RClamp(volume, Zero, One)),
                       "setChannelVolume")
         ELSE UNCHANGED <<m_commandQueue, accepted>>
  /\ stopAllPhase' = "none"
  /\ music' = NoMusic
  /\ UNCHANGED <<m_channels, m_gameSpeed, gPc, gArg, aPc, dispatched, removed,
                 pendingAtStart, lastPlay, fadeArg, lastFade, qvars, cvars, bvars>>

\* AudioEngine::fadeChannel
fadeChannel ==
  /\ CallStart
  /\ step' = "fadeChannel"
  /\ \E channelId \in ChannelArgs, targetVolume \in FadeTargets,
        duration \in FadeDurations :
       IF ValidChannel(channelId)
         THEN /\ GamePush(pushFade(channelId, targetVolume,
                                   RMax(Zero, duration)),
                          "fadeChannel")
              /\ fadeArg' = IF PushedId # 0
                              THEN Append(fadeArg, <<PushedId, targetVolume>>)
                              ELSE fadeArg
         ELSE UNCHANGED <<m_commandQueue, accepted, fadeArg>>
  /\ stopAllPhase' = "none"
  /\ music' = NoMusic
  /\ UNCHANGED <<m_channels, m_gameSpeed, gPc, gArg, aPc, dispatched, removed,
                 pendingAtStart, lastPlay, lastFade, qvars, cvars, bvars>>

\* After the stopChannel(i) of stopAll: the next one, or m_commandQueue.clear().
StopAllAfter(i) ==
  IF i + 1 < MAX_CHANNELS
    THEN /\ gPc' = "stopAll_push"
         /\ gArg' = [NoArg EXCEPT !.i = i + 1]
    ELSE /\ gPc' = "stopAll_clear"
         /\ gArg' = NoArg

\* stopAll, lines 257-259, first iteration: stopChannel(0)
stopAll ==
  /\ CallStart
  /\ step' = "stopAll"
  /\ GamePush(pushStop(0), "stopAll")
  /\ StopAllAfter(0)
  /\ stopAllPhase' = "none"
  /\ music' = NoMusic
  /\ UNCHANGED <<m_channels, m_gameSpeed, aPc, dispatched, removed,
                 pendingAtStart, lastPlay, fadeArg, lastFade, qvars, cvars, bvars>>

\* stopAll, lines 257-259, later iterations: stopChannel(i)
stopAll_push ==
  /\ gPc = "stopAll_push"
  /\ GamePush(pushStop(gArg.i), "stopAll")
  /\ StopAllAfter(gArg.i)
  /\ step' = "stopAll_push"
  /\ UNCHANGED <<m_channels, m_gameSpeed, aPc, issued, dispatched, removed,
                 pendingAtStart, lastPlay, stopAllPhase, hvars, qvars, cvars, bvars>>

\* stopAll, line 260: AudioQueue::clear, one try_pop of its while loop
stopAll_clear ==
  /\ gPc = "stopAll_clear"
  /\ LET r == try_pop(m_commandQueue)
     IN  /\ m_commandQueue' = r.q
         /\ IF r.ok
              THEN /\ removed' = removed \cup {r.item.id}
                   /\ UNCHANGED <<gPc, stopAllPhase>>
              ELSE /\ gPc' = "idle"
                   /\ stopAllPhase' = "returned"
                   /\ UNCHANGED removed
  /\ step' = "stopAll_clear"
  /\ UNCHANGED <<m_channels, m_gameSpeed, gArg, aPc, issued, accepted,
                 dispatched, pendingAtStart, lastPlay, hvars, qvars, cvars, bvars>>

\* The history of the last Play applied, after handling cmd on `channels`.
PlayApplied(channels, cmd) ==
  IF cmd.type = "Play" /\ ValidChannel(cmd.channelId) /\ cmd.file # NullFile
    THEN [id |-> cmd.id, src |-> cmd.src, channelId |-> cmd.channelId,
          wasActive |-> isActive(channels[cmd.channelId])]
    ELSE lastPlay

\* The history of the last fade applied, after cmd was handled giving `after`.
FadeApplied(after, cmd) ==
  IF cmd.type \in {"FadeIn", "FadeOut"} /\ ValidChannel(cmd.channelId)
    THEN [id |-> cmd.id, channelId |-> cmd.channelId,
          target |-> after[cmd.channelId].m_targetVolume]
    ELSE lastFade

\* audioCallback, line 338: processCommands, one try_pop and its handler call
\* (AudioQueue::processCommands recurses until try_pop returns nothing).
audioCallback_processCommands ==
  /\ aPc \in {"idle", "drain"}
  /\ pendingAtStart' =
       IF aPc = "idle" THEN QueuedIds(m_commandQueue) ELSE pendingAtStart
  /\ stopAllPhase' =
       IF aPc = "idle" /\ stopAllPhase = "returned" THEN "inCallback"
       ELSE stopAllPhase
  /\ LET r == try_pop(m_commandQueue)
     IN  /\ m_commandQueue' = r.q
         /\ IF r.ok
              THEN /\ m_channels' = Handle(m_channels, r.item)
                   /\ dispatched' = Append(dispatched, r.item.id)
                   /\ lastPlay' = PlayApplied(m_channels, r.item)
                   /\ lastFade' = FadeApplied(Handle(m_channels, r.item), r.item)
                   /\ aPc' = "drain"
              ELSE /\ aPc' = "mix"
                   /\ UNCHANGED <<m_channels, dispatched, lastPlay, lastFade>>
  /\ music' = IF aPc = "idle" /\ music.phase = "returned"
                THEN [music EXCEPT !.phase = "inCallback"] ELSE music
  /\ step' = "audioCallback_processCommands"
  /\ UNCHANGED <<m_gameSpeed, gPc, gArg, issued, accepted, removed, fadeArg,
                 qvars, cvars, bvars>>

\* audioCallback, lines 339-378: the update / setPlaybackSpeed / mix pass over
\* the channel bank (the output samples are not part of this state).
audioCallback_mix ==
  /\ aPc = "mix"
  /\ m_channels' =
       MixChannels(m_channels, 0, R(CallbackFrames, DEFAULT_SAMPLE_RATE),
                   m_gameSpeed, CallbackFrames)
  /\ aPc' = "idle"
  /\ stopAllPhase' =
       IF stopAllPhase = "inCallback" THEN "settled" ELSE stopAllPhase
  /\ pendingAtStart' = {}
  /\ music' = IF music.phase = "inCallback"
                THEN [music EXCEPT !.phase = "settled"] ELSE music
  /\ step' = "audioCallback_mix"
  /\ UNCHANGED <<m_commandQueue, m_gameSpeed, gPc, gArg, issued, accepted,
                 dispatched, removed, lastPlay, fadeArg, lastFade, qvars, cvars, bvars>>

GameStep ==
  \/ playSound_find
  \/ playSound_push
  \/ playMusic_stop
  \/ playMusic_play
  \/ stopChannel
  \/ setChannelVolume
  \/ fadeChannel
  \/ stopAll
  \/ stopAll_push
  \/ stopAll_clear

AudioStep ==
  \/ audioCallback_processCommands
  \/ audioCallback_mix

Next == GameStep \/ AudioStep

Spec == Init /\ [][Next]_vars

\* The device keeps invoking the callback (it is not paused): the audio
\* thread's steps are weakly fair.
FairSpec == Spec /\ WF_vars(AudioStep)

(***************************************************************************)
(* ChSpec: one AudioChannel. Each step is one call of a member function,   *)
(* with arguments drawn from small sets.                                   *)
(***************************************************************************)
\* Arguments of the calls.
BenchClips == {SoundFile, MusicFile(TRUE), EmptyClip, StereoClip}
BenchPlayVolumes == {R(1, 2), R(2, 1)}
BenchSetVolumes == {R(-1, 1), R(1, 2), R(5, 1)}
BenchFadeTargets == {Zero, R(1, 2)}
BenchFadeDurations == {Zero, R(3, 4)}
BenchDeltaTimes == {R(1, 4), R(1, 2)}
BenchPitches == {R(1, 2), R(3, 1)}
\* What a read outside the sample vector may yield.
Garbage == {Zero, One}
\* The frame counts of a mix call.
BenchFrames == 0 .. (CallbackFrames + 1)
\* States of a second channel: playing a clip, possibly positioned off-centre.
OtherChannels ==
  {play(DefaultChannel, MusicFile(TRUE), R(1, 2)),
   play(setPosition(DefaultChannel, One, Zero), StereoClip, R(1, 2))}

\* A call may be made.
Call(name) ==
  /\ ops < MaxOps
  /\ ops' = ops + 1
  /\ step' = name
  /\ UNCHANGED <<qvars, evars, bvars>>

\* channel.play(file, vol)
channel_play ==
  /\ Call("channel_play")
  /\ \E file \in BenchClips, vol \in BenchPlayVolumes :
       /\ chan' = play(chan, file, vol)
       /\ last' = [NoCall EXCEPT !.op = "play", !.pre = chan, !.file = file,
                                 !.v = vol]
       /\ hold' = [by |-> "play", arg |-> vol,
                   cancelled |-> RLt(Zero, chan.m_fadeTimeRemaining)]
  /\ fade' = NoFadeStarted
  /\ UNCHANGED outBuf

\* channel.stop()
channel_stop ==
  /\ Call("channel_stop")
  /\ chan' = stop(chan)
  /\ last' = [NoCall EXCEPT !.op = "stop", !.pre = chan]
  /\ fade' = NoFadeStarted
  /\ UNCHANGED <<outBuf, hold>>

\* channel.setVolume(vol)
channel_setVolume ==
  /\ Call("channel_setVolume")
  /\ \E vol \in BenchSetVolumes :
       /\ chan' = setVolume(chan, vol)
       /\ last' = [NoCall EXCEPT !.op = "setVolume", !.pre = chan, !.v = vol]
       /\ hold' = [by |-> "setVolume", arg |-> vol,
                   cancelled |-> RLt(Zero, chan.m_fadeTimeRemaining)]
  /\ fade' = NoFadeStarted
  /\ UNCHANGED outBuf

\* channel.fadeVolume(target, duration)
channel_fadeVolume ==
  /\ Call("channel_fadeVolume")
  /\ \E target \in BenchFadeTargets, duration \in BenchFadeDurations :
       /\ chan' = fadeVolume(chan, target, duration)
       /\ last' = [NoCall EXCEPT !.op = "fadeVolume", !.pre = chan,
                                 !.v = target, !.d = duration]
       /\ fade' = IF isActive(chan) /\ RLt(Zero, duration)
                    THEN [on |-> TRUE, v0 |-> chan.m_volume, target |-> target,
                          d |-> duration, elapsed |-> Zero, updates |-> 0]
                    ELSE NoFadeStarted
  /\ hold' = NoHold
  /\ UNCHANGED outBuf

\* channel.update(deltaTime)
channel_update ==
  /\ Call("channel_update")
  /\ \E deltaTime \in BenchDeltaTimes :
       /\ chan' = update(chan, deltaTime)
       /\ last' = [NoCall EXCEPT !.op = "update", !.pre = chan, !.d = deltaTime]
       /\ fade' = IF fade.on
                    THEN [fade EXCEPT !.elapsed = RAdd(@, deltaTime),
                                      !.updates = @ + 1]
                    ELSE fade
  /\ UNCHANGED <<outBuf, hold>>

\* channel.setPitch(pitch)
channel_setPitch ==
  /\ Call("channel_setPitch")
  /\ \E pitch \in BenchPitches :
       /\ chan' = setPitch(chan, pitch)
       /\ last' = [NoCall EXCEPT !.op = "setPitch", !.pre = chan, !.v = pitch]
  /\ fade' = NoFadeStarted
  /\ UNCHANGED <<outBuf, hold>>

\* channel.setPosition(1, 0)
channel_setPosition ==
  /\ Call("channel_setPosition")
  /\ chan' = setPosition(chan, One, Zero)
  /\ last' = [NoCall EXCEPT !.op = "setPosition", !.pre = chan]
  /\ fade' = NoFadeStarted
  /\ UNCHANGED <<outBuf, hold>>

\* The values a read outside the sample vector may yield in this call: one
\* (never used) when mix stays inside the vector.
GarbageFor(ch, frames) ==
  LET r == mixInto(ch, [k \in 1 .. 2 * frames |-> Zero], frames, Zero)
  IN  IF \E i \in r.reads : i >= ch.m_currentFile.size THEN Garbage ELSE {Zero}

\* channel.mix(buffer, frames)
channel_mix ==
  /\ Call("channel_mix")
  /\ \E frames \in BenchFrames :
       \E g \in GarbageFor(chan, frames) :
         \E buf \in {[k \in 1 .. 2 * frames |-> One]} :
         \E r \in {mixInto(chan, buf, frames, g)} :
             /\ chan' = r.ch
             /\ outBuf' = r.buffer
             /\ last' = [NoCall EXCEPT !.op = "mix", !.pre = chan,
                                       !.preOut = buf, !.frames = frames,
                                       !.reads = r.reads,
                                       !.endFrame = r.endFrame, !.g = g]
  /\ fade' = NoFadeStarted
  /\ UNCHANGED hold

\* Two channels mixed into one zeroed buffer, in either order: mix(buffer,
\* frames) called on each, as the channel loop of audioCallback does.
channel_mixTwo ==
  /\ Call("channel_mixTwo")
  /\ \E other \in OtherChannels, order \in {"AB", "BA"} :
       \E g \in GarbageFor(chan, CallbackFrames) :
         \E frames \in {CallbackFrames} :
         \E zeroed \in {[k \in 1 .. 2 * frames |-> Zero]} :
         \E first \in {IF order = "AB" THEN chan ELSE other},
            second \in {IF order = "AB" THEN other ELSE chan} :
         \E r1 \in {mixInto(first, zeroed, frames, g)} :
         \E r2 \in {mixInto(second, r1.buffer, frames, g)} :
             /\ chan' = IF order = "AB" THEN r1.ch ELSE r2.ch
             /\ outBuf' = r2.buffer
             /\ last' = [NoCall EXCEPT !.op = "mixTwo", !.pre = chan,
                                       !.preOut = zeroed, !.frames = frames,
                                       !.other = other, !.order = order,
                                       !.g = g]
  /\ fade' = NoFadeStarted
  /\ UNCHANGED hold

ChNext ==
  \/ channel_play
  \/ channel_stop
  \/ channel_setVolume
  \/ channel_fadeVolume
  \/ channel_update
  \/ channel_setPitch
  \/ channel_setPosition
  \/ channel_mix
  \/ channel_mixTwo

ChSpec == Init /\ [][ChNext]_vars

(***************************************************************************)
(* SpSpec: the playback speed of one channel. AudioEngine::setSpeed sets   *)
(* the game speed; for an active channel every callback calls              *)
(* update(deltaTime * m_gameSpeed) and setPlaybackSpeed(m_gameSpeed) with  *)
(* deltaTime = frames / 44100 (audio_engine.cpp:342, 358-359). mix leaves  *)
(* both speeds alone and is exercised in ChSpec.                           *)
(***************************************************************************)
\* The arguments of AudioEngine::setSpeed.
GameSpeeds == {R(1, 20), One, R(5, 1)}
\* Frames per callback: the 1024 requested by AudioEngineAdapter::create and
\* the 2048 a device may answer with (SDL_AUDIO_ALLOW_SAMPLES_CHANGE).
SpeedFrames == {1024, 2048}

\* AudioEngine::setSpeed
setSpeed ==
  /\ \E newSpeed \in GameSpeeds :
       m_gameSpeed' = RClamp(newSpeed, R(1, 10), R(3, 1))
  /\ m_gameSpeed' # m_gameSpeed
  /\ step' = "setSpeed"
  /\ UNCHANGED <<m_channels, m_commandQueue, ehist, qvars, cvars, bvars>>

\* audioCallback, lines 358-359, for the channel of the bench, in at most
\* MaxCallbacks callbacks.
channel_updateSpeed ==
  /\ callbacks < MaxCallbacks
  /\ callbacks' = callbacks + 1
  /\ step' = "channel_updateSpeed"
  /\ UNCHANGED <<qvars, evars, ops, m_config, m_masterVolume,
                 m_shutdownRequested, m_shutdownRampRemaining, sPc, pushes, cb,
                 ramps>>
  /\ \E frames \in SpeedFrames :
     \E deltaTime \in {R(frames, DEFAULT_SAMPLE_RATE)} :
       /\ chan' = IF isActive(chan)
                    THEN setPlaybackSpeed(update(chan, RMul(deltaTime, m_gameSpeed)),
                                          m_gameSpeed)
                    ELSE chan
       /\ last' = [NoCall EXCEPT !.op = "updateSpeed", !.pre = chan,
                                 !.d = RMul(deltaTime, m_gameSpeed),
                                 !.frames = frames, !.v = m_gameSpeed]
  /\ fade' = NoFadeStarted
  /\ UNCHANGED <<outBuf, hold>>

SpNext ==
  \/ channel_play
  \/ channel_setPitch
  \/ setSpeed
  \/ channel_updateSpeed

SpSpec == Init /\ [][SpNext]_vars

(***************************************************************************)
(* CbSpec: the engine behind its device. AudioSystem::create opens the     *)
(* device, the push functions of AudioQueue put commands with any channel  *)
(* index on the queue, and every callback of the device is one step.       *)
(***************************************************************************)
\* Arguments of the calls.
DeviceChannels == {1, 2}
CmdPlays == {<<NullFile, One>>, <<SoundFile, R(5, 1)>>, <<MusicFile(TRUE), One>>}
CmdVolumes == {Zero}
CmdFadeTargets == {Zero}
MasterVolumes == {R(1, 2), R(2, 1)}
\* Frames of the streams the device hands over (have.samples).
DeviceBufferSizes == 1 .. (CallbackFrames + 1)

\* AudioSystem::create: SDL_OpenAudioDevice may change the channel count and
\* the buffer size (SDL_AUDIO_ALLOW_CHANNELS_CHANGE, _SAMPLES_CHANGE); m_config
\* keeps what the device has.
AudioSystem_create ==
  /\ m_config.numOutputChannels = 0
  /\ \E channels \in DeviceChannels, samples \in DeviceBufferSizes :
       m_config' = [numOutputChannels |-> channels, bufferSize |-> samples]
  /\ step' = "AudioSystem_create"
  /\ UNCHANGED <<m_channels, m_commandQueue, m_gameSpeed, m_masterVolume,
                 m_shutdownRequested, m_shutdownRampRemaining, sPc, pushes,
                 callbacks, cb, ramps, ehist, qvars, cvars>>

\* m_queue.try_push(cmd) of a push function of AudioQueue. The game thread
\* makes no call once it is inside the destructor.
QueuePush(cmd) ==
  /\ m_config.numOutputChannels # 0
  /\ ~m_shutdownRequested
  /\ pushes < MaxCmds
  /\ pushes' = pushes + 1
  /\ m_commandQueue' = try_push(m_commandQueue, cmd).q
  /\ UNCHANGED <<m_channels, m_gameSpeed, m_config, m_masterVolume,
                 m_shutdownRequested, m_shutdownRampRemaining, sPc, callbacks,
                 cb, ramps, ehist, qvars, cvars>>

queue_pushPlay ==
  \E p \in CmdPlays, channelId \in ChannelArgs :
    /\ QueuePush(pushPlay(p[1], p[2], channelId))
    /\ step' = "queue_pushPlay"

queue_pushStop ==
  \E channelId \in ChannelArgs :
    /\ QueuePush(pushStop(channelId))
    /\ step' = "queue_pushStop"

queue_pushVolume ==
  \E channelId \in ChannelArgs, volume \in CmdVolumes :
    /\ QueuePush(pushVolume(channelId, volume))
    /\ step' = "queue_pushVolume"

queue_pushFade ==
  \E channelId \in ChannelArgs, targetVolume \in CmdFadeTargets :
    /\ QueuePush(pushFade(channelId, targetVolume, SHUTDOWN_RAMP_DURATION))
    /\ step' = "queue_pushFade"

queue_pushLoop ==
  \E channelId \in ChannelArgs, shouldLoop \in BOOLEAN :
    /\ QueuePush(pushLoop(channelId, shouldLoop))
    /\ step' = "queue_pushLoop"

\* AudioEngine::setMasterVolume
setMasterVolume ==
  /\ m_config.numOutputChannels # 0
  /\ ~m_shutdownRequested
  /\ \E volume \in MasterVolumes :
       m_masterVolume' = RClamp(volume, Zero, One)
  /\ step' = "setMasterVolume"
  /\ UNCHANGED <<m_channels, m_commandQueue, m_gameSpeed, m_config,
                 m_shutdownRequested, m_shutdownRampRemaining, sPc, pushes,
                 callbacks, cb, ramps, ehist, qvars, cvars>>

\* beginShutdown, line 185: m_shutdownRequested = true. The destructor is its
\* only caller: it is called once.
beginShutdown_request ==
  /\ m_config.numOutputChannels # 0
  /\ sPc.pc = "idle"
  /\ ~m_shutdownRequested
  /\ m_shutdownRequested' = TRUE
  /\ sPc' = [pc |-> "ramp", seen |-> 0]
  /\ step' = "beginShutdown_request"
  /\ UNCHANGED <<m_channels, m_commandQueue, m_gameSpeed, m_config,
                 m_masterVolume, m_shutdownRampRemaining, pushes, callbacks,
                 cb, ramps, ehist, qvars, cvars>>

\* What the store of line 186 leaves in m_shutdownRampRemaining. The member is
\* a plain float the audio thread reads and decrements (lines 348-350): when a
\* callback ran since line 185, the store may land before its decrement, or
\* between the read and the write of the decrement and be lost.
RampStored ==
  {SHUTDOWN_RAMP_DURATION} \cup
    IF sPc.seen > 0
      THEN {RSub(SHUTDOWN_RAMP_DURATION, R(cb.frames, DEFAULT_SAMPLE_RATE)),
            m_shutdownRampRemaining}
      ELSE {}

\* beginShutdown, line 186: m_shutdownRampRemaining = SHUTDOWN_RAMP_DURATION
beginShutdown_ramp ==
  /\ sPc.pc = "ramp"
  /\ \E remaining \in RampStored : m_shutdownRampRemaining' = remaining
  /\ sPc' = [pc |-> "idle", seen |-> 0]
  /\ ramps' = <<>>
  /\ step' = "beginShutdown_ramp"
  /\ UNCHANGED <<m_channels, m_commandQueue, m_gameSpeed, m_config,
                 m_masterVolume, m_shutdownRequested, pushes, callbacks, cb,
                 ehist, qvars, cvars>>

\* The device's callback for a stream of m_config.bufferSize frames:
\* AudioSystem::processAudio computes the frame count from the length in bytes
\* and AudioEngine::audioCallback(buffer, frames) runs as a whole. The device
\* makes MaxCallbacks callbacks before the shutdown is requested, at most one
\* between the two stores of beginShutdown, and after them it calls until the
\* ramp has had the time to end twice over.
audioCallback ==
  /\ m_config.numOutputChannels # 0
  /\ IF m_shutdownRequested
       THEN /\ IF sPc.pc = "ramp" THEN sPc.seen = 0
                                  ELSE Len(ramps) < RampFrames + 2
            /\ UNCHANGED callbacks
       ELSE callbacks < MaxCallbacks /\ callbacks' = callbacks + 1
  /\ sPc' = IF sPc.pc = "ramp" THEN [sPc EXCEPT !.seen = 1] ELSE sPc
  /\ \E samples \in {m_config.bufferSize} :
     \E len \in {samples * m_config.numOutputChannels * SizeofFloat} :
     \E frames \in {processAudio(len, m_config.numOutputChannels)} :
     \E pc \in {processCommands(m_channels, m_commandQueue, <<>>)} :
     \E deltaTime \in {R(frames, DEFAULT_SAMPLE_RATE)} :
     \E shutdownRamp \in {ShutdownRamp(m_shutdownRequested,
                                       m_shutdownRampRemaining)} :
     \E s \in {MixBank([channels |-> pc.channels,
                        buffer |-> [k \in 1 .. frames * DEFAULT_CHANNELS |-> Zero],
                        m_activeChannels |-> 0],
                       0, deltaTime, m_gameSpeed, frames)} :
     \E out \in {Normalized(s, frames, m_masterVolume, shutdownRamp)} :
       /\ m_channels' = s.channels
       /\ m_commandQueue' = pc.q
       /\ m_shutdownRampRemaining' =
            IF m_shutdownRequested
              THEN RSub(m_shutdownRampRemaining, deltaTime)
              ELSE m_shutdownRampRemaining
       /\ cb' = [samples |-> samples, frames |-> frames,
                 numOutputChannels |-> m_config.numOutputChannels,
                 streamLen |-> len \div SizeofFloat,
                 zeroed |-> Zeroed(frames),
                 written |-> IF s.m_activeChannels > 0
                               THEN 0 .. (frames * DEFAULT_CHANNELS - 1) ELSE {},
                 pre |-> m_channels, queued |-> Queued(m_commandQueue),
                 handled |-> pc.handled, mixed |-> s.buffer, out |-> out,
                 m_activeChannels |-> s.m_activeChannels,
                 requested |-> m_shutdownRequested,
                 shutdownRamp |-> shutdownRamp, master |-> m_masterVolume]
       /\ ramps' = IF m_shutdownRequested /\ sPc.pc = "idle" /\ frames >= 1
                     THEN Append(ramps, shutdownRamp) ELSE ramps
  /\ step' = "audioCallback"
  /\ UNCHANGED <<m_gameSpeed, m_config, m_masterVolume, m_shutdownRequested,
                 pushes, ehist, qvars, cvars>>

CbNext ==
  \/ AudioSystem_create
  \/ queue_pushPlay
  \/ queue_pushStop
  \/ queue_pushVolume
  \/ queue_pushFade
  \/ queue_pushLoop
  \/ audioCallback

CbSpec == Init /\ [][CbNext]_vars

\* SdSpec: the engine's output up to its shutdown. Clips are started, the
\* master volume is set, and beginShutdown is called while the device keeps
\* calling back.
SdNext ==
  \/ AudioSystem_create
  \/ queue_pushPlay
  \/ setMasterVolume
  \/ beginShutdown_request
  \/ beginShutdown_ramp
  \/ audioCallback

SdSpec == Init /\ [][SdNext]_vars

\* The thread that took the last step.
GameThreadSteps ==
  {"playSound_find", "playSound_push", "playMusic_stop", "playMusic_play",
   "stopChannel", "setChannelVolume", "fadeChannel", "stopAll",
   "stopAll_push", "stopAll_clear"}
AudioThreadSteps == {"audioCallback_processCommands", "audioCallback_mix"}

(***************************************************************************)
(* Claims about the ring buffer, checked under QSpec.                      *)
(***************************************************************************)
\* Number of commands held: accepted pushes not yet returned by a pop.
held == Len(pushed) - Len(popped)

\* The tags seen so far in `pushed`.
PushedTags == {pushed[i] : i \in 1 .. Len(pushed)}

\* C1: FIFO. In every state reached by interleaving one producer's try_push
\* steps with one consumer's try_pop steps, the sequence of payloads returned
\* by successful pops is a prefix of the sequence of payloads whose push
\* returned true: same order, nothing lost in between, nothing duplicated.
C1_PopsArePrefixOfPushes ==
  /\ Len(popped) <= Len(pushed)
  /\ \A i \in 1 .. Len(popped) : popped[i] = Payload(pushed[i])

\* C1 witness: at least two payloads were popped while the producer was in the
\* middle of a later push.
C1_Witness ==
  /\ Len(popped) >= 2
  /\ pPc = "store"

\* A try_push that evaluates its full test while (write + 1) mod N = read.
FullPushStep ==
  /\ pPc = "check"
  /\ pPc' # "check"
  /\ ((writeIndex + 1) % Size) = readIndex

\* C2: a try_push on a full queue returns false in that very step (it does not
\* wait) and leaves the write index, the read index and every slot unchanged;
\* the rejected payload never shows up in a slot or in a pop, so the pops still
\* return the previously pushed sequence.
C2_FullPushChangesNothing ==
  /\ [][FullPushStep =>
          /\ pRes' = "false"
          /\ pPc' = "idle"
          /\ UNCHANGED <<writeIndex, readIndex, buffer, pushed, popped>>]_vars
  /\ [](\A v \in rejected :
          /\ \A i \in Slots : buffer[i][1] # v /\ buffer[i][2] # v
          /\ \A i \in 1 .. Len(popped) : popped[i][1] # v /\ popped[i][2] # v)

\* C2 witness: a push was rejected, and afterwards the consumer popped exactly
\* the sequence accepted before and after it.
C2_Witness ==
  /\ rejected # {}
  /\ Len(pushed) >= Size - 1
  /\ Len(popped) = Len(pushed)
  /\ \A i \in 1 .. Len(popped) : popped[i] = Payload(pushed[i])

\* C3: the queue holds between 0 and capacity-1 commands, size() reports that
\* number, empty() is true exactly when nothing is held (so a fresh queue is
\* empty), full() is true exactly when capacity-1 commands are held, and when
\* try_pop returns nothing the queue is empty.
C3_Occupancy ==
  /\ [](/\ held \in 0 .. (Size - 1)
        /\ size = held
        /\ empty <=> (held = 0)
        /\ full <=> (held = Size - 1))
  /\ [][(cRes' = "nullopt" /\ cRes # "nullopt") => empty']_vars

\* C3 witness: the queue was filled (a push was rejected), capacity-1 commands
\* were popped and try_pop then returned nothing on the empty queue.
C3_Witness ==
  /\ rejected # {}
  /\ Len(popped) >= Size - 1
  /\ cRes = "nullopt"
  /\ empty

\* The producer is between the start and the end of its payload write.
ProducerWriting == pPc \in {"write_lo", "write_hi"}
\* The consumer is between the start and the end of its payload copy.
ConsumerCopying == cPc \in {"copy_lo", "copy_hi"}

\* C4: with the payload access and the index publication as separate steps,
\* the consumer never copies a slot while the producer writes it, the producer
\* never writes a slot the consumer is still copying, and every payload
\* returned by try_pop is complete (both words of one pushed command).
C4_NoTornRead ==
  /\ ~(ProducerWriting /\ ConsumerCopying /\ pCur = cCur)
  /\ \A i \in 1 .. Len(popped) :
        /\ popped[i][1] = popped[i][2]
        /\ popped[i][1] \in PushedTags
  /\ cPc = "store" => (cItem[1] = cItem[2] /\ cItem[1] \in PushedTags)

\* C4 witness: the producer writes one slot while the consumer copies another.
C4_Witness ==
  /\ ProducerWriting
  /\ ConsumerCopying
  /\ pCur # cCur

(***************************************************************************)
(* Claims about the engine, checked under Spec.                            *)
(***************************************************************************)
\* The ids of the commands handed to the handler so far.
DispatchedIds == {dispatched[k] : k \in 1 .. Len(dispatched)}

\* C5: in every interleaving of control calls on the game thread with audio
\* callbacks, every step that advances the queue's read index is a step of the
\* audio (consumer) thread, and every step that advances the write index is a
\* step of the game (producer) thread.
C5_IndicesOwnedByOneThread ==
  [][/\ (m_commandQueue'.readIndex # m_commandQueue.readIndex)
          => (step' \in AudioThreadSteps)
     /\ (m_commandQueue'.writeIndex # m_commandQueue.writeIndex)
          => (step' \in GameThreadSteps)]_vars

\* C6: every accepted command is handed to the handler at most once, only by
\* the audio thread's processCommands, and no accepted command is taken out of
\* the queue by the game thread.
C6_DispatchedAtMostOnceByAudioOnly ==
  /\ \A j, k \in 1 .. Len(dispatched) : dispatched[j] = dispatched[k] => j = k
  /\ DispatchedIds \subseteq accepted
  /\ removed = {}

\* C7: every command whose push returned true is eventually dispatched, and a
\* callback drains the queue before it mixes. Only try_push puts a command in
\* the queue, so a command can still be dispatched only while it is queued:
\* in every state each accepted command has been dispatched or is still in
\* the queue waiting for a callback; and when a callback reaches its
\* update/mix pass, every command that was queued when it started has been
\* dispatched.
C7_AcceptedEventuallyDispatched ==
  /\ accepted \subseteq (DispatchedIds \cup QueuedIds(m_commandQueue))
  /\ aPc = "mix" => pendingAtStart \subseteq DispatchedIds

\* C8: once stopAll() has returned and one callback that started afterwards
\* has completed, with no control call started in between, every channel of
\* the bank is inactive.
C8_AllInactiveAfterStopAll ==
  stopAllPhase = "settled" => \A c \in Channels : ~isActive(m_channels[c])

\* The sound channels (1 .. MAX_CHANNELS-1) inactive in the current state.
FreeSoundChannels == {c \in 1 .. (MAX_CHANNELS - 1) : ~isActive(m_channels[c])}

C10_NoVoiceStealing ==
  ~(lastPlay.src = "playSound" /\ lastPlay.wasActive)

\* The command the audio thread is about to pop, and the steps that dispatch one.
Popping == m_commandQueue.buffer[m_commandQueue.readIndex]
DispatchStep ==
  /\ step' = "audioCallback_processCommands"
  /\ Len(dispatched') > Len(dispatched)

C12_VolumeInUnitRange ==
  \A c \in Channels :
    /\ RLe(Zero, m_channels[c].m_volume)
    /\ RLe(m_channels[c].m_volume, One)

\* The targetVolume argument fadeChannel was called with for command id.
FadeArgOf(id) ==
  (CHOOSE k \in 1 .. Len(fadeArg) : fadeArg[k][1] = id)

\* C16: once the command of fadeChannel(ch, t, d) is processed, the channel's
\* fade target volume is clamp(t, 0, 1): 0 for every t <= 0, 1 for every t >= 1.
C16_FadeTargetClamped ==
  lastFade.id # 0 =>
    lastFade.target = RClamp(fadeArg[FadeArgOf(lastFade.id)][2], Zero, One)

\* C13: play(clip, v) on any channel, active or not, leaves it active holding
\* clip at cursor 0 with volume = target = v and no fade in progress, pitch and
\* position unchanged; and the volume stays v through the calls that follow
\* (a fade started before the play no longer moves it) until a setVolume or
\* fadeVolume.
C13_PlayResetsChannel ==
  /\ last.op = "play" =>
       /\ chan.m_active
       /\ isActive(chan) <=> last.file # NullFile
       /\ chan.m_currentFile = last.file
       /\ chan.m_position = 0
       /\ chan.m_volume = last.v
       /\ chan.m_targetVolume = last.v
       /\ chan.m_fadeTimeRemaining = Zero
       /\ chan.m_pitch = last.pre.m_pitch
       /\ chan.m_positionX = last.pre.m_positionX
       /\ chan.m_positionY = last.pre.m_positionY
  /\ hold.by = "play" => chan.m_volume = hold.arg

\* C13 witness: a play arrived while the channel was active and fading, and an
\* update has since run on the playing channel.
C13_Witness ==
  /\ hold.by = "play"
  /\ hold.cancelled
  /\ last.op = "update"
  /\ isActive(last.pre)

\* C14: setVolume(v) sets the volume and the target to clamp(v, 0, 1) (-1 gives
\* 0, 5 gives 1) and cancels the fade: the volume stays there through every
\* later update until another setVolume, play or fadeVolume.
C14_SetVolumeClampsAndCancelsFade ==
  /\ last.op = "setVolume" =>
       /\ chan.m_volume = RClamp(last.v, Zero, One)
       /\ chan.m_targetVolume = RClamp(last.v, Zero, One)
       /\ chan.m_fadeTimeRemaining = Zero
       /\ last.v = R(-1, 1) => chan.m_volume = Zero
       /\ last.v = R(5, 1) => chan.m_volume = One
  /\ hold.by = "setVolume" => chan.m_volume = RClamp(hold.arg, Zero, One)

\* C14 witness: setVolume(5) arrived while the channel was fading, and an
\* update has since run on the active channel.
C14_Witness ==
  /\ hold.by = "setVolume"
  /\ hold.cancelled
  /\ hold.arg = R(5, 1)
  /\ last.op = "update"
  /\ isActive(last.pre)

C17_SilentMixChangesNothing ==
  (/\ last.op = "mix"
   /\ \/ ~last.pre.m_active
      \/ last.pre.m_currentFile = NullFile
      \/ RLe(last.pre.m_volume, Zero)) =>
    /\ outBuf = last.preOut
    /\ chan.m_position = last.pre.m_position
    /\ chan = last.pre

\* C17 witness: mix over a buffer already holding samples, on an active
\* channel with a clip and volume 0.
C17_Witness ==
  /\ last.op = "mix"
  /\ isActive(last.pre)
  /\ last.pre.m_volume = Zero
  /\ last.frames = CallbackFrames + 1
  /\ last.preOut[1] = One

\* C18: when mix reaches the end of a non-looping clip, on return the channel
\* is inactive with the clip released and cursor 0, and the output frames after
\* the one where the end was reached are unmodified.
C18_NaturalEndIsStop ==
  (last.op = "mix" /\ last.endFrame >= 0) =>
    /\ ~chan.m_active
    /\ chan.m_currentFile = NullFile
    /\ chan.m_position = 0
    /\ \A k \in (2 * last.endFrame + 3) .. (2 * last.frames) :
         outBuf[k] = last.preOut[k]

\* C19: every sample index read by mix / interpolateSample lies in [0, size)
\* of the clip, for every clip, pitch and frame count.
C19_ReadsInBounds ==
  last.op = "mix" =>
    \A i \in last.reads : 0 <= i /\ i < last.pre.m_currentFile.size

\* What a channel adds to a zeroed buffer of the given frames.
Contribution(ch, frames, g) ==
  mixInto(ch, [k \in 1 .. 2 * frames |-> Zero], frames, g).buffer

\* C20: after two active channels A and B are mixed into a zeroed buffer, in
\* either order, every sample is A's contribution plus B's.
C20_MixAccumulates ==
  (last.op = "mixTwo" /\ isActive(last.pre) /\ isActive(last.other)) =>
    \A k \in 1 .. 2 * last.frames :
      outBuf[k] = RAdd(Contribution(last.pre, last.frames, last.g)[k],
                       Contribution(last.other, last.frames, last.g)[k])

\* C20 witness: B was mixed before A, and both contributed a non-zero sample.
C20_Witness ==
  /\ last.op = "mixTwo"
  /\ last.order = "BA"
  /\ isActive(last.pre)
  /\ isActive(last.other)
  /\ Contribution(last.pre, last.frames, last.g)[1] # Zero
  /\ Contribution(last.other, last.frames, last.g)[1] # Zero
(***************************************************************************)
(* Claims about the callback's output, checked under SdSpec and CbSpec.    *)
(***************************************************************************)
\* The largest absolute value among the samples of buf (0 for no sample).
PeakOf(buf) ==
  LET S == {RAbs(buf[k]) : k \in DOMAIN buf} \cup {Zero}
  IN  CHOOSE m \in S : \A x \in S : RLe(x, m)

\* C21: after every callback each output sample has absolute value <= 1, and
\* when the mixed peak exceeds 1 every sample is the mixed sample times the one
\* gain 1/peak x masterVolume x rampGain: the clamp changes no value.
C21_OutputScaledNotClipped ==
  cb.frames >= 1 =>
    /\ \A k \in DOMAIN cb.out : RLe(RAbs(cb.out[k]), One)
    /\ RLt(One, PeakOf(cb.mixed)) =>
         \A k \in DOMAIN cb.out :
           cb.out[k] = RMul(cb.mixed[k],
                            RMul(RMul(RDiv(One, PeakOf(cb.mixed)), cb.master),
                                 cb.shutdownRamp))

\* C21 witness: a callback during the ramp whose mixed samples differ and peak
\* above 1, with the master volume turned down.
C21_Witness ==
  /\ cb.frames >= 1
  /\ RLt(One, PeakOf(cb.mixed))
  /\ \E j, k \in DOMAIN cb.mixed :
       cb.mixed[j] # cb.mixed[k] /\ cb.out[j] # Zero /\ cb.out[k] # Zero
  /\ cb.master = R(1, 2)
  /\ cb.requested
  /\ RLt(Zero, cb.shutdownRamp) /\ RLt(cb.shutdownRamp, One)

\* C22: the ramp gains computed by the callbacks (of at least one frame) after
\* beginShutdown returned are strictly decreasing until the gain is 0 and 0 from
\* then on; a callback with gain 0 leaves the whole output silent; the gain is
\* 0 after at most RampFrames callbacks, the length of the ramp in frames.
C22_RampDecreasesToSilence ==
  /\ \A k \in 1 .. (Len(ramps) - 1) :
       \/ RLt(ramps[k + 1], ramps[k])
       \/ ramps[k] = Zero /\ ramps[k + 1] = Zero
  /\ (cb.requested /\ cb.shutdownRamp = Zero) =>
       \A k \in DOMAIN cb.out : cb.out[k] = Zero
  /\ Len(ramps) > RampFrames => ramps[Len(ramps)] = Zero

\* C22 witness: a ramp of one-frame callbacks from 1 down to 0, the last one
\* silencing a channel that still plays.
C22_Witness ==
  /\ Len(ramps) = RampFrames + 1
  /\ ramps[1] = One
  /\ \A k \in 1 .. RampFrames : RLt(ramps[k + 1], ramps[k])
  /\ ramps[Len(ramps)] = Zero
  /\ cb.shutdownRamp = Zero
  /\ \E k \in DOMAIN cb.mixed : cb.mixed[k] # Zero

\* The channel bank before the k-th command of the last callback was handled.
BankBefore(k) == IF k = 1 THEN cb.pre ELSE cb.handled[k - 1].after

\* A command the handler is to discard: its channel index is outside the bank,
\* or it is a Play without a clip.
Discarded(cmd) ==
  \/ cmd.channelId \notin Channels
  \/ cmd.type = "Play" /\ cmd.file = NullFile

\* C23: a command with a channel index outside the bank, and a Play command
\* with a null clip, is consumed and leaves every channel as it was; every
\* command queued when the callback started, those after it included, is
\* handled by that callback, in order, and the queue is left empty.
C23_InvalidCommandsDiscarded ==
  /\ \A k \in 1 .. Len(cb.handled) :
       Discarded(cb.handled[k].cmd) => cb.handled[k].after = BankBefore(k)
  /\ Len(cb.handled) = Len(cb.queued)
  /\ \A k \in 1 .. Len(cb.handled) : cb.handled[k].cmd = cb.queued[k]
  /\ step = "audioCallback" => Queued(m_commandQueue) = <<>>

\* C23 witness: a callback that found a command for a channel outside the bank
\* followed by a Play, and started the clip of that Play.
C23_Witness ==
  /\ step = "audioCallback"
  /\ Len(cb.handled) = 2
  /\ cb.handled[1].cmd.channelId \notin Channels
  /\ cb.handled[2].cmd.type = "Play"
  /\ cb.handled[2].after # cb.handled[1].after
  /\ \E c \in Channels : isActive(cb.handled[2].after[c])

\* C24: a callback for a stream of F frames with C output channels zeroes and
\* writes only the samples with index in [0, F x C), the samples the device
\* handed over.
C24_WritesInsideStream ==
  step = "audioCallback" =>
    /\ cb.streamLen = cb.frames * cb.numOutputChannels
    /\ \A i \in cb.zeroed \cup cb.written :
         0 <= i /\ i < cb.frames * cb.numOutputChannels

\* C25: once a SetLoop(channel, flag) command has been handled, the clip held
\* by the addressed channel has its loop flag equal to flag.
C25_SetLoopSetsClipFlag ==
  \A k \in 1 .. Len(cb.handled) :
    LET cmd == cb.handled[k].cmd IN
      ( /\ cmd.type = "SetLoop"
        /\ cmd.channelId \in Channels
        /\ BankBefore(k)[cmd.channelId].m_currentFile # NullFile ) =>
      cb.handled[k].after[cmd.channelId].m_currentFile.looping = cmd.flag

\* C26: during a fade started by fadeVolume(target, d), d > 0, from volume v0,
\* after update calls with cumulative elapsed time e <= d the volume is
\* v0 + (target - v0) * e / d, however e is split into update calls.
C26_FadeLinearInElapsedTime ==
  (fade.on /\ RLe(fade.elapsed, fade.d)) =>
    chan.m_volume =
      RAdd(fade.v0,
           RDiv(RMul(RSub(fade.target, fade.v0), fade.elapsed), fade.d))

\* C27: every update moves the current speed of an active channel to a value
\* between the previous current speed and the target speed, so the current
\* speed stays within [0.1, 3.0] and pitch x currentSpeed stays positive.
C27_SpeedApproachesTarget ==
  (last.op = "updateSpeed" /\ isActive(last.pre)) =>
    /\ \/ /\ RLe(last.pre.m_currentSpeed, chan.m_currentSpeed)
          /\ RLe(chan.m_currentSpeed, last.pre.m_targetSpeed)
       \/ /\ RLe(last.pre.m_targetSpeed, chan.m_currentSpeed)
          /\ RLe(chan.m_currentSpeed, last.pre.m_currentSpeed)
    /\ RLe(R(1, 10), chan.m_currentSpeed)
    /\ RLe(chan.m_currentSpeed, R(3, 1))
    /\ RLt(Zero, RMul(chan.m_pitch, chan.m_currentSpeed))

\* C28: in every state the engine reaches, a channel's active flag is set if
\* and only if the channel holds a clip.
C28_ActiveIffClip ==
  \A c \in Channels :
    m_channels[c].m_active <=> (m_channels[c].m_currentFile # NullFile)

\* C28 witness: a callback that left one channel playing its clip and another,
\* which was playing before, inactive with its clip released.
C28_Witness ==
  /\ step = "audioCallback"
  /\ \E c \in Channels :
       /\ isActive(cb.pre[c])
       /\ ~m_channels[c].m_active
       /\ m_channels[c].m_currentFile = NullFile
  /\ \E c \in Channels :
       m_channels[c].m_active /\ m_channels[c].m_currentFile # NullFile

\* C29: playMusic enqueues both its Stop(0) and its Play(0, clip) or neither:
\* when its pushPlay returns, the Play was accepted if and only if the Stop
\* was.
C29_PlayMusicAllOrNothing ==
  [][(gPc = "playMusic_play" /\ gPc' = "idle") =>
       ((music.stopId # 0) <=> (accepted' # accepted))]_vars

\* C30: a channel playing a non-looping clip becomes inactive after finitely
\* many callbacks of at least one frame, without a Stop command and whatever
\* its volume. A callback depends on the channel, the game speed and the frame
\* count alone, so the claim requires that no callback which finds the queue
\* empty leaves such a channel exactly as it found it: every later callback
\* would leave it so again.
C30_NonLoopingClipProgresses ==
  (step = "audioCallback" /\ cb.frames >= 1 /\ cb.queued = <<>>) =>
    \A c \in Channels :
      (isActive(cb.pre[c]) /\ ~cb.pre[c].m_currentFile.looping) =>
        m_channels[c] # cb.pre[c]

=============================================================================
